---- MODULE Spec2Model ----
(***************************************************************************)
(* A model of src/uxdat.py: a Streamlit script that collects a gaming      *)
(* profile from a form, derives a rule-based action plan and SEO/ASO       *)
(* suggestions, renders them, expands every derived strategy through a     *)
(* hosted chat-completion API, and offers a sidebar "enhanced plan"        *)
(* action.                                                                 *)
(*                                                                         *)
(* Conventions.                                                            *)
(*   - A Python string is a TLA+ string.  A Python string that is built    *)
(*     from parts (an f-string, a join, a repr) is a Text: the sequence of *)
(*     its parts in order, whose concatenation is the Python string.       *)
(*     Flat(t) is that concatenation.                                      *)
(*   - Optional values: None is the empty sequence, Some(x) is <<x>>.      *)
(*   - A float in [0,1] with the sliders' two decimals is the integer of   *)
(*     its hundredths: 0.7 is 70.                                          *)
(***************************************************************************)
EXTENDS Integers, Sequences, FiniteSets, TLC

None == <<>>
Some(x) == <<x>>

Range(s) == {s[k] : k \in 1..Len(s)}

RECURSIVE Flat(_)
Flat(t) == IF t = <<>> THEN "" ELSE Head(t) \o Flat(Tail(t))

\* str.startswith on Texts whose first part is aligned with the prefix.
StartsWith(t, prefix) == Len(t) >= 1 /\ t[1] = prefix

\* The part of Text t that follows the part `label` at distance gap.
ValueAfter(t, label, gap) ==
    LET k == CHOOSE j \in 1..Len(t) : t[j] = label IN t[k + gap]

HasPart(t, label) == \E j \in 1..Len(t) : t[j] = label

(***************************************************************************)
(* Module-level tables (uxdat.py lines 12-42) and the options of the       *)
(* competitiveness selectbox (line 76).                                    *)
(***************************************************************************)
ModelNames ==
    << "Llama 3.2 1B (Preview)", "Llama 3 70B", "Llama 3 8B", "Llama 3.1 70B",
       "Llama 3.1 8B", "Mixtral 8x7B", "Gemma 2 9B", "LLaVA 1.5 7B",
       "Llama 3.2 3B (Preview)", "Llama 3.2 11B Vision (Preview)" >>

SUPPORTED_MODELS ==
    ( "Llama 3.2 1B (Preview)" :> "llama-3.2-1b-preview"
   @@ "Llama 3 70B" :> "llama3-70b-8192"
   @@ "Llama 3 8B" :> "llama3-8b-8192"
   @@ "Llama 3.1 70B" :> "llama-3.1-70b-versatile"
   @@ "Llama 3.1 8B" :> "llama-3.1-8b-instant"
   @@ "Mixtral 8x7B" :> "mixtral-8x7b-32768"
   @@ "Gemma 2 9B" :> "gemma2-9b-it"
   @@ "LLaVA 1.5 7B" :> "llava-v1.5-7b-4096-preview"
   @@ "Llama 3.2 3B (Preview)" :> "llama-3.2-3b-preview"
   @@ "Llama 3.2 11B Vision (Preview)" :> "llama-3.2-11b-vision-preview" )

MAX_TOKENS == 1000

game_genres ==
    << "Casual", "Hyper Casual", "Puzzle", "RPG", "Shooter", "Strategy",
       "Sports & Driving", "Casino", "Simulation", "AR/Location-Based" >>

competitiveness_levels ==
    << "Not at all", "Somewhat", "Moderately", "Very Competitive" >>

(***************************************************************************)
(* The profile dictionary (create_user_profile, lines 69-103), its keys in *)
(* insertion order.                                                        *)
(***************************************************************************)
\* A variant that returns the dictionary whether or not the form was submitted.
create_user_profile_always(submit_button, form) ==
    Some( "Age" :> form.age
       @@ "Gaming Frequency" :> form.gaming_frequency
       @@ "Preferred Genre" :> form.preferred_genre
       @@ "Hours Played per Week" :> form.hours_played
       @@ "Competitiveness" :> form.competitiveness
       @@ "Selected Features" :> form.selected_features
       @@ "Selected Event Types" :> form.selected_event_types )

\* create_user_profile: the dictionary when the submit button reports true,
\* None otherwise.  form holds the values the form's widgets return.
create_user_profile(submit_button, form) ==
    IF submit_button
    THEN Some( "Age" :> form.age
            @@ "Gaming Frequency" :> form.gaming_frequency
            @@ "Preferred Genre" :> form.preferred_genre
            @@ "Hours Played per Week" :> form.hours_played
            @@ "Competitiveness" :> form.competitiveness
            @@ "Selected Features" :> form.selected_features
            @@ "Selected Event Types" :> form.selected_event_types )
    ELSE None

(***************************************************************************)
(* Rule engine: generate_action_plan_with_features (lines 136-165).        *)
(***************************************************************************)
game_recommendations ==
    ( "Puzzle" :> << "Candy Crush Saga", "Two Dots", "Monument Valley" >>
   @@ "Action" :> << "PUBG Mobile", "Call of Duty: Mobile", "Brawl Stars" >>
   @@ "RPG" :> << "Genshin Impact", "Final Fantasy Brave Exvius", "Another Eden" >>
   @@ "Strategy" :> << "Clash Royale", "Rise of Kingdoms", "Plague Inc." >>
   @@ "Casual" :> << "Among Us", "Subway Surfers", "Temple Run" >> )

\* A variant whose lookup falls back to the casual titles.
recommend_games_fallback(genre) ==
    IF genre \in DOMAIN game_recommendations
    THEN game_recommendations[genre]
    ELSE game_recommendations["Casual"]

\* dict.get(genre, [])
recommend_games(genre) ==
    IF genre \in DOMAIN game_recommendations
    THEN game_recommendations[genre]
    ELSE << >>

ConsistencyStrategy ==
    "Set aside specific times for gaming to maintain consistency."
BalanceStrategy ==
    "Consider balancing gaming time with other activities for a well-rounded lifestyle."
FocusStrategy ==
    "Focus on mastering one or two games rather than playing many casually."

\* A variant whose first threshold is inclusive.
basic_strategies_inclusive(hours, competitiveness) ==
    (IF hours <= 5 THEN << ConsistencyStrategy >> ELSE << >>)
    \o (IF hours > 20 THEN << BalanceStrategy >> ELSE << >>)
    \o (IF competitiveness = "Very Competitive" THEN << FocusStrategy >> ELSE << >>)

\* A variant whose second comparison is turned round.
basic_strategies_overlap(hours, competitiveness) ==
    (IF hours < 5 THEN << ConsistencyStrategy >> ELSE << >>)
    \o (IF hours < 20 THEN << BalanceStrategy >> ELSE << >>)
    \o (IF competitiveness = "Very Competitive" THEN << FocusStrategy >> ELSE << >>)

\* The three independent `if` statements of lines 158-163, in order.
basic_strategies(hours, competitiveness) ==
    (IF hours < 5 THEN << ConsistencyStrategy >> ELSE << >>)
    \o (IF hours > 20 THEN << BalanceStrategy >> ELSE << >>)
    \o (IF competitiveness = "Very Competitive" THEN << FocusStrategy >> ELSE << >>)

generate_action_plan_with_features(user_profile) ==
    [ game_recommendations |-> recommend_games(user_profile["Preferred Genre"]),
      strategies |-> basic_strategies(user_profile["Hours Played per Week"],
                                      user_profile["Competitiveness"]) ]

(***************************************************************************)
(* Rule engine: generate_seo_aso_suggestions (lines 105-134).              *)
(***************************************************************************)
SeoCasual ==
    "Target keywords like 'free casual games', 'best casual games', 'mobile games to relax'."
SeoRPG ==
    "Optimize for 'top RPG mobile games', 'best free RPGs', 'immersive RPG games'."
SeoPuzzle ==
    "Use keywords such as 'brain games', 'best puzzle games', 'mobile puzzle games'."
SeoProgression ==
    "Include keywords related to 'level-based games', 'game progression mechanics'."
AsoLimitedTime ==
    "Utilize limited-time events in app description to encourage installs."
\* The source writes "app's" with U+2019, not the ASCII apostrophe.
AsoHighlight ==
    "Highlight special promotions and seasonal events in the app's title or subtitle."
AsoSocial ==
    "Mention social features like multiplayer and leaderboards in the description."

seo_rules(genre, selected_features) ==
    (IF genre = "Casual" THEN << SeoCasual >>
     ELSE IF genre = "RPG" THEN << SeoRPG >>
     ELSE IF genre = "Puzzle" THEN << SeoPuzzle >>
     ELSE << >>)
    \o (IF "Game Progression" \in Range(selected_features)
        THEN << SeoProgression >> ELSE << >>)

\* A variant that appends the two promotion sentences the other way round.
aso_rules_swapped(selected_features, selected_event_types) ==
    (IF "Special Promotions" \in Range(selected_event_types)
     THEN << AsoHighlight, AsoLimitedTime >> ELSE << >>)
    \o (IF "Social Interaction" \in Range(selected_features)
        THEN << AsoSocial >> ELSE << >>)

aso_rules(selected_features, selected_event_types) ==
    (IF "Special Promotions" \in Range(selected_event_types)
     THEN << AsoLimitedTime, AsoHighlight >> ELSE << >>)
    \o (IF "Social Interaction" \in Range(selected_features)
        THEN << AsoSocial >> ELSE << >>)

generate_seo_aso_suggestions(user_profile) ==
    ( "SEO Suggestions" :> seo_rules(user_profile["Preferred Genre"],
                                     user_profile["Selected Features"])
   @@ "ASO Suggestions" :> aso_rules(user_profile["Selected Features"],
                                     user_profile["Selected Event Types"]) )

(***************************************************************************)
(* Narrative formatter: the pieces of display_ai_agent_results             *)
(* (lines 167-223) and of the sidebar prompt (lines 237-248).              *)
(***************************************************************************)
\* sep.join(list)
RECURSIVE Join(_, _)
Join(sep, list) ==
    IF list = << >> THEN ""
    ELSE IF Len(list) = 1 THEN list[1]
    ELSE list[1] \o sep \o Join(sep, Tail(list))

\* {', '.join(x) if x else 'None'}  (lines 178-179 and 244-245)
join_or_none(list) == IF list # << >> THEN Join(", ", list) ELSE "None"

\* The f-string of lines 172-180: each label part is followed by its value.
profile_block(user_profile) ==
    << "\n    **Age:** ", ToString(user_profile["Age"]),
       "  \n    **Gaming Frequency:** ", user_profile["Gaming Frequency"],
       "  \n    **Preferred Genre:** ", user_profile["Preferred Genre"],
       "  \n    **Hours Played per Week:** ", ToString(user_profile["Hours Played per Week"]),
       "  \n    **Competitiveness:** ", user_profile["Competitiveness"],
       "  \n    **Selected Features:** ", join_or_none(user_profile["Selected Features"]),
       "  \n    **Selected Event Types:** ", join_or_none(user_profile["Selected Event Types"]),
       "\n    " >>

\* "\n".join([f"- {x}" for x in list])  (lines 185, 206, 212)
RECURSIVE bullet_lines(_)
bullet_lines(list) ==
    IF list = << >> THEN << >>
    ELSE << (IF Len(list) = 1 THEN "- " \o list[1] ELSE "- " \o list[1] \o "\n") >>
         \o bullet_lines(Tail(list))

\* Python's repr of a str: single quotes, unless the text holds an
\* apostrophe and no double quote (the four SEO sentences).
PyReprStr(x) ==
    IF x \in {SeoCasual, SeoRPG, SeoPuzzle, SeoProgression}
    THEN "\"" \o x \o "\""
    ELSE "'" \o x \o "'"

RECURSIVE PyReprItems(_)
PyReprItems(list) ==
    IF list = << >> THEN << >>
    ELSE << PyReprStr(Head(list)) >> \o PyReprItems(Tail(list))

\* Python's repr of a list of str, as one part: [] or ['a', 'b'].
PyReprList(list) == "[" \o Join(", ", PyReprItems(list)) \o "]"

\* Python's repr of the profile dictionary (the {user_profile} of line 217):
\* the quoted key, ": ", the value's repr, entries separated by ", ".
PyReprProfile(user_profile) ==
    << "{", "'Age'", ": ", ToString(user_profile["Age"]),
       ", ", "'Gaming Frequency'", ": ", PyReprStr(user_profile["Gaming Frequency"]),
       ", ", "'Preferred Genre'", ": ", PyReprStr(user_profile["Preferred Genre"]),
       ", ", "'Hours Played per Week'", ": ", ToString(user_profile["Hours Played per Week"]),
       ", ", "'Competitiveness'", ": ", PyReprStr(user_profile["Competitiveness"]),
       ", ", "'Selected Features'", ": ", PyReprList(user_profile["Selected Features"]),
       ", ", "'Selected Event Types'", ": ", PyReprList(user_profile["Selected Event Types"]),
       "}" >>

PyReprSuggestions(seo_aso_suggestions) ==
    << "{", "'SEO Suggestions'", ": ", PyReprList(seo_aso_suggestions["SEO Suggestions"]),
       ", ", "'ASO Suggestions'", ": ", PyReprList(seo_aso_suggestions["ASO Suggestions"]),
       "}" >>

\* The f-string of line 217: what is written to the page and handed to the
\* download button as game_strategy_plan.txt.
full_results(user_profile, action_plan, seo_aso_suggestions) ==
    << "User Profile:\n" >> \o PyReprProfile(user_profile)
    \o << "\n\nGame Recommendations:\n", PyReprList(action_plan.game_recommendations),
          "\n\nStrategies and Best Practices:\n", PyReprList(action_plan.strategies),
          "\n\nSEO and ASO Suggestions:\n" >>
    \o PyReprSuggestions(seo_aso_suggestions)

\* One element of the Streamlit page: the call that made it and its text.
Element(call, body) == [ call |-> call, body |-> body ]

(***************************************************************************)
(* Completion client adapter: get_groq_client (lines 28-36) and            *)
(* expand_strategies_with_llm (lines 49-67).                               *)
(***************************************************************************)
\* The handle get_groq_client returns: None when GROQ_API_KEY is unset.
get_groq_client(groq_api_key) ==
    IF groq_api_key = None THEN None ELSE Some("Groq")

\* The user_query f-string of line 50.
expand_user_query(strategy) ==
    << "Expand the following strategy and include recommendations for best practices:\n\nStrategy: ",
       strategy >>

\* A variant that passes the display name instead of the identifier.
completion_request_by_name(model, system_prompt, user_query, temperature) ==
    [ model |-> model,
      messages |-> << [ role |-> "system", content |-> system_prompt ],
                      [ role |-> "user", content |-> user_query ] >>,
      temperature |-> temperature,
      max_tokens |-> MAX_TOKENS ]

\* The keyword arguments of client.chat.completions.create (lines 53-61).
completion_request(model, system_prompt, user_query, temperature) ==
    [ model |-> SUPPORTED_MODELS[model],
      messages |-> << [ role |-> "system", content |-> system_prompt ],
                      [ role |-> "user", content |-> user_query ] >>,
      temperature |-> temperature,
      max_tokens |-> MAX_TOKENS ]

\* How a piece of code ends: it returns a Text, it raises an exception
\* (its class and its str()), or it blocks on a request it has sent.
Return(text) == [ kind |-> "return", text |-> text, exc |-> "", request |-> None ]
Raise(exc, text) == [ kind |-> "raise", text |-> << text >>, exc |-> exc, request |-> None ]
Send(request) == [ kind |-> "send", text |-> << >>, exc |-> "", request |-> Some(request) ]

\* str(e) of the AttributeError that client.chat raises on a None client,
\* and of the KeyError that SUPPORTED_MODELS[model] raises.
AttributeErrorText == "'NoneType' object has no attribute 'chat'"
KeyErrorText(model) == "'" \o model \o "'"

\* The f-string of line 67.
expansion_error(e) == << "Error generating strategy expansion:", " ", e >>

NoExpansion == << "No expansion available for this strategy." >>

\* The try block up to the moment the request leaves the process
\* (lines 53-61): client.chat is evaluated first, then SUPPORTED_MODELS[model].
try_create(handle, model, system_prompt, strategy, temperature) ==
    IF handle = None THEN Raise("AttributeError", AttributeErrorText)
    ELSE IF model \notin DOMAIN SUPPORTED_MODELS THEN Raise("KeyError", KeyErrorText(model))
    ELSE Send(completion_request(model, system_prompt, expand_user_query(strategy), temperature))

\* The try block once create() has answered (lines 53 and 62-65):
\* response.raised is the exception create() raised, if any, and
\* response.choices the message contents of the choices.
try_choices(response) ==
    IF response.raised # None THEN Raise(response.raised[1].exc, response.raised[1].text)
    ELSE IF response.choices # << >> THEN Return(response.choices[1])
    ELSE Return(NoExpansion)

\* A variant that catches the API's own errors only.
except_APIError(outcome) ==
    IF outcome.kind = "raise" /\ outcome.exc = "APIConnectionError"
    THEN Return(expansion_error(outcome.text[1]))
    ELSE outcome

\* `except Exception as e` (lines 66-67): every exception the try block can
\* raise here is an Exception, and becomes the returned error string.
except_Exception(outcome) ==
    IF outcome.kind = "raise" THEN Return(expansion_error(outcome.text[1]))
    ELSE outcome

\* expand_strategies_with_llm up to the request, and from the response on.
expand_try(handle, model, system_prompt, strategy, temperature) ==
    except_Exception(try_create(handle, model, system_prompt, strategy, temperature))

expand_result(response) == except_Exception(try_choices(response))

(***************************************************************************)
(* The call site of line 195.                                              *)
(***************************************************************************)
ExpertPrompt == "You are an expert in game development and strategy."

\* 0.7, the default of expand_strategies_with_llm's temperature parameter.
DefaultTemperature == 70

\* A variant that names another model of the table.
expansion_call_8b(strategy) ==
    [ model |-> "Llama 3 8B", system_prompt |-> ExpertPrompt,
      strategy |-> strategy, temperature |-> DefaultTemperature ]

\* The arguments display_ai_agent_results passes for one strategy.
expansion_call(strategy) ==
    [ model |-> "Llama 3 70B", system_prompt |-> ExpertPrompt,
      strategy |-> strategy, temperature |-> DefaultTemperature ]

(***************************************************************************)
(* Inputs.  The values the widgets return in one run of the script, and    *)
(* what the completion service may answer.                                 *)
(***************************************************************************)
\* The most options a multiselect returns in the runs explored.
MaxSelected == 2

\* The selections of at most MaxSelected options among S, in click order.
Selections(S) ==
    UNION { { q \in [1..n -> S] : \A a, b \in 1..n : a # b => q[a] # q[b] }
            : n \in 0..MaxSelected }

FeatureSamples == { "Game Progression", "Social Interaction", "Retention" }
EventSamples == { "Special Promotions", "Live Events" }
GenreSamples == { "Casual", "RPG", "Puzzle", "Strategy", "Shooter" }
HoursSamples == { 0, 3, 5, 10, 20, 25 }
CompetitivenessSamples == { "Moderately", "Very Competitive" }

Forms ==
    [ age : { 25 },
      gaming_frequency : { "Daily" },
      preferred_genre : GenreSamples,
      hours_played : HoursSamples,
      competitiveness : CompetitivenessSamples,
      selected_features : Selections(FeatureSamples),
      selected_event_types : Selections(EventSamples) ]

\* The sidebar's selectbox, slider (hundredths) and button.
SidebarModelSamples == { "Llama 3.2 1B (Preview)", "Mixtral 8x7B" }
SidebarTemperatureSamples == { 0, 100 }

Widgets ==
    [ submit_button : BOOLEAN,
      form : Forms,
      model : SidebarModelSamples,
      temperature : SidebarTemperatureSamples,
      generate_button : BOOLEAN ]

\* What the widgets return before the user has touched anything
\* (the defaults of lines 72-76, 86, 89, 228-229).
DefaultWidgets ==
    [ submit_button |-> FALSE,
      form |-> [ age |-> 25, gaming_frequency |-> "Daily",
                 preferred_genre |-> "Casual", hours_played |-> 5,
                 competitiveness |-> "Not at all",
                 selected_features |-> << >>, selected_event_types |-> << >> ],
      model |-> "Llama 3.2 1B (Preview)",
      temperature |-> 70,
      generate_button |-> FALSE ]

\* Answers of the completion service: an exception, no choice, one choice,
\* two choices.
ContentA == << "Play at the same hour each day and keep sessions short." >>
ContentB == << "Rotate between two titles at most." >>
Responses ==
    { [ raised |-> Some([ exc |-> "APIConnectionError", text |-> "Connection error." ]),
        choices |-> << >> ],
      [ raised |-> None, choices |-> << >> ],
      [ raised |-> None, choices |-> << ContentA >> ],
      [ raised |-> None, choices |-> << ContentB, ContentA >> ] }

(***************************************************************************)
(* State.                                                                  *)
(***************************************************************************)
VARIABLES
    client,        \* the module-level handle of line 36
    pc,            \* "idle": no run in progress; "top": a run is starting;
                   \* "awaiting": the run is blocked in create()
    widgets,       \* what the widgets returned in the current (or last) run,
                   \* None before the run has read them
    user_profile,  \* main's user_profile in that run
    action_plan,   \* main's action_plan in that run (None without a profile)
    k,             \* index of the strategy whose expansion is in progress
    calls,         \* arguments of the expand_strategies_with_llm calls of the run
    sent,          \* requests that left the process in the run, in order
    inflight,      \* the request create() is blocked on, or None
    returned,      \* what the run's expand_strategies_with_llm calls returned
    page,          \* the elements the run has put on the page, in order
    fault,         \* the uncaught exception that ended the run, or None
    unit           \* the last direct call of a function and its result

vars ==
    << client, pc, widgets, user_profile, action_plan, k, calls, sent,
       inflight, returned, page, fault, unit >>

(***************************************************************************)
(* The script, run by run.  A run record holds the variables a run of      *)
(* main changes; the operators below take it from one place of the script  *)
(* to the next.                                                            *)
(***************************************************************************)
\* main, lines 261-263, and the form of create_user_profile, lines 70-91.
page_top ==
    << Element("image", << "p1.png" >>),
       Element("sidebar.image", << "p2.png" >>),
       Element("title", << "Game User Assessment and ML Personas App" >>),
       Element("header", << "User Assessment Questionnaire with AI-driven strategies and marketing insights." >>),
       Element("form", << "assessment_form" >>) >>

StartOfRun ==
    [ pc |-> "idle", k |-> 0, calls |-> << >>, sent |-> << >>, inflight |-> None,
      returned |-> << >>, page |-> page_top, fault |-> None ]

\* display_ai_agent_results up to the loop over the strategies (lines 168-191,
\* and the else branch of lines 197-198).
display_head(profile, plan) ==
    << Element("write", << "### AI Agent: Reasoning and Planning" >>),
       Element("subheader", << "User Profile" >>),
       Element("write", profile_block(profile)),
       Element("subheader", << "Game Recommendations" >>),
       Element("write", IF plan.game_recommendations # << >>
                        THEN bullet_lines(plan.game_recommendations)
                        ELSE << "*No game recommendations available based on the profile.*" >>),
       Element("subheader", << "Strategies and Best Practices" >>) >>
    \o (IF plan.strategies # << >> THEN << >>
        ELSE << Element("write", << "*No strategies or best practices available based on the profile.*" >>) >>)

\* display_ai_agent_results after the loop (lines 200-223).
display_tail(profile, plan) ==
    LET seo_aso_suggestions == generate_seo_aso_suggestions(profile)
        seo == seo_aso_suggestions["SEO Suggestions"]
        aso == seo_aso_suggestions["ASO Suggestions"]
        report == full_results(profile, plan, seo_aso_suggestions)
    IN  << Element("subheader", << "SEO and ASO Suggestions" >>),
           Element("write", << "**SEO Suggestions**:" >>),
           Element("write", IF seo # << >> THEN bullet_lines(seo)
                            ELSE << "*No SEO suggestions available based on the profile.*" >>),
           Element("write", << "**ASO Suggestions**:" >>),
           Element("write", IF aso # << >> THEN bullet_lines(aso)
                            ELSE << "*No ASO suggestions available based on the profile.*" >>),
           Element("subheader", << "Full Game Strategy Plan" >>),
           Element("write", report),
           Element("download_button", report) >>

\* An exception nothing catches ends the run: Streamlit shows it.
uncaught(run, exc, text) ==
    [ run EXCEPT !.fault = Some(exc \o ": " \o text), !.pc = "idle",
                 !.inflight = None, !.k = 0 ]

\* The NameError of line 251: no query_groq is defined or imported anywhere.
NameErrorText == "name 'query_groq' is not defined"

\* groq_ai_section_with_features (lines 225-258): the sidebar's widgets, and
\* the handler of the generate button, which ends at its call of query_groq.
groq_ai_section_with_features(run, w) ==
    LET shown == run.page
                 \o << Element("sidebar.header", << "Groq AI Configuration" >>),
                       Element("sidebar.selectbox", << w.model >>),
                       Element("sidebar.slider", << ToString(w.temperature) >>),
                       Element("sidebar.button", << "Generate Enhanced AI Plan with Groq" >>) >>
    IN  IF w.generate_button
        THEN uncaught([ run EXCEPT !.page = shown \o << Element("spinner", << "Generating AI plan... This may take a few moments." >>) >> ],
                      "NameError", NameErrorText)
        ELSE [ run EXCEPT !.page = shown, !.pc = "idle" ]

\* Lines 195-196 once expand_strategies_with_llm has ended with outcome o.
after_expansion(run, o) ==
    IF o.kind = "raise" THEN uncaught(run, o.exc, o.text[1])
    ELSE [ run EXCEPT !.inflight = None,
                      !.returned = Append(@, o.text),
                      !.page = Append(@, Element("write", << "**Best Practices**: " >> \o o.text)) ]

\* The loop of lines 192-196 from its i-th strategy on, up to the point
\* where create() blocks (pc "awaiting"), the loop ends (pc "after_loop")
\* or an exception leaves it (pc "idle").
RECURSIVE expand_loop(_, _, _, _)
expand_loop(run, handle, strategies, i) ==
    IF i > Len(strategies) THEN [ run EXCEPT !.pc = "after_loop", !.k = 0 ]
    ELSE
      LET a == expansion_call(strategies[i])
          o == expand_try(handle, a.model, a.system_prompt, a.strategy, a.temperature)
          called == [ run EXCEPT !.k = i,
                                 !.calls = Append(@, a),
                                 !.page = Append(@, Element("write", << "**Strategy**: ", strategies[i] >>)) ]
      IN  IF o.kind = "send"
          THEN [ called EXCEPT !.pc = "awaiting", !.inflight = o.request,
                               !.sent = Append(@, o.request[1]) ]
          ELSE LET r == after_expansion(called, o)
               IN  IF r.fault # None THEN r
                   ELSE expand_loop(r, handle, strategies, i + 1)

\* The rest of main once the loop is at its i-th strategy: the loop, then
\* the end of display_ai_agent_results and the sidebar section.
continue_main(run, handle, profile, plan, w, i) ==
    LET r == expand_loop(run, handle, plan.strategies, i)
    IN  IF r.pc # "after_loop" THEN r
        ELSE groq_ai_section_with_features(
                 [ r EXCEPT !.page = @ \o display_tail(profile, plan) ], w)

\* main (lines 260-274) from its first line.
main(w, handle) ==
    LET profile == create_user_profile(w.submit_button, w.form)
    IN  IF profile # None
        THEN LET plan == generate_action_plan_with_features(profile[1])
             IN  [ profile |-> profile, plan |-> Some(plan),
                   run |-> continue_main([ StartOfRun EXCEPT !.page = @ \o display_head(profile[1], plan) ],
                                         handle, profile[1], plan, w, 1) ]
        ELSE [ profile |-> None, plan |-> None, run |-> StartOfRun ]

Assign(run) ==
    /\ pc' = run.pc
    /\ k' = run.k
    /\ calls' = run.calls
    /\ sent' = run.sent
    /\ inflight' = run.inflight
    /\ returned' = run.returned
    /\ page' = run.page
    /\ fault' = run.fault

CurrentRun ==
    [ pc |-> pc, k |-> k, calls |-> calls, sent |-> sent, inflight |-> inflight,
      returned |-> returned, page |-> page, fault |-> fault ]

(***************************************************************************)
(* Actions of the application.                                             *)
(***************************************************************************)
\* A widget interaction makes Streamlit run the script again from the top,
\* in a fresh context: the previous run's locals and page are dropped.
\* Runs are explored one at a time: a new one starts when none is in
\* progress.
ScriptStarts ==
    /\ pc = "idle"
    /\ widgets' = None
    /\ user_profile' = None
    /\ action_plan' = None
    /\ Assign([ StartOfRun EXCEPT !.pc = "top", !.page = << >> ])
    /\ UNCHANGED << client, unit >>

\* The script runs with the values w its widgets return, until create()
\* blocks or main ends.
Rerun ==
    /\ pc = "top"
    /\ \E w \in Widgets :
         LET m == main(w, client)
         IN  /\ widgets' = Some(w)
             /\ user_profile' = m.profile
             /\ action_plan' = m.plan
             /\ Assign(m.run)
    /\ UNCHANGED << client, unit >>

\* create() returns or raises: expand_strategies_with_llm returns its text,
\* display_ai_agent_results writes it and the run goes on.
CompletionReturns ==
    /\ pc = "awaiting"
    /\ \E response \in Responses :
         LET r == after_expansion(CurrentRun, expand_result(response))
         IN  IF r.fault # None THEN Assign(r)
             ELSE Assign(continue_main(r, client, user_profile[1], action_plan[1], widgets[1], k + 1))
    /\ UNCHANGED << client, widgets, user_profile, action_plan, unit >>

\* The process starts: the module body runs get_groq_client once, and the
\* first run of the script shows the form with nothing submitted.
Init ==
    /\ \E groq_api_key \in { None, Some("gsk_test") } :
         client = get_groq_client(groq_api_key)
    /\ widgets = Some(DefaultWidgets)
    /\ user_profile = None
    /\ action_plan = None
    /\ pc = StartOfRun.pc
    /\ k = StartOfRun.k
    /\ calls = StartOfRun.calls
    /\ sent = StartOfRun.sent
    /\ inflight = StartOfRun.inflight
    /\ returned = StartOfRun.returned
    /\ page = StartOfRun.page
    /\ fault = StartOfRun.fault
    /\ unit = None

Next == ScriptStarts \/ Rerun \/ CompletionReturns

Spec == Init /\ [][Next]_vars

(***************************************************************************)
(* The functions called directly, on every input of bounded sets: the      *)
(* initial state holds a pending call, the actions run it.                 *)
(***************************************************************************)
\* Genres beyond the form's ten: the table's "Action", and strings that are
\* keys of no table.
UnitGenres == Range(game_genres) \cup { "Action", "Roguelike", "rpg", "" }

UnitForms ==
    [ age : { 25 },
      gaming_frequency : { "Daily" },
      preferred_genre : UnitGenres,
      hours_played : 0..40,
      competitiveness : Range(competitiveness_levels),
      selected_features : Selections(FeatureSamples),
      selected_event_types : Selections(EventSamples) ]

UnitProfiles == { create_user_profile(TRUE, f)[1] : f \in UnitForms }

\* Arguments of expand_strategies_with_llm: every table key and two names
\* that are no key, the prompt and strategy texts, temperatures.
UnitExpandArgs ==
    [ model : Range(ModelNames) \cup { "GPT-4", "llama3-70b-8192" },
      system_prompt : { ExpertPrompt, "" },
      strategy : { ConsistencyStrategy, FocusStrategy, "" },
      temperature : { 0, DefaultTemperature, 100 } ]

PendingCall(fn, args) ==
    [ fn |-> fn, args |-> args, outcome |-> None, response |-> None ]

UnitInit ==
    /\ \E groq_api_key \in { None, Some("gsk_test") } :
         client = get_groq_client(groq_api_key)
    /\ widgets = None
    /\ user_profile = None
    /\ action_plan = None
    /\ pc = "idle"
    /\ k = 0
    /\ calls = << >>
    /\ sent = << >>
    /\ inflight = None
    /\ returned = << >>
    /\ page = << >>
    /\ fault = None
    /\ \/ \E p \in UnitProfiles :
            unit = Some(PendingCall("generate_action_plan_with_features", p))
       \/ \E p \in UnitProfiles :
            unit = Some(PendingCall("generate_seo_aso_suggestions", p))
       \/ \E a \in UnitExpandArgs :
            unit = Some(PendingCall("expand_strategies_with_llm", a))

UnitPending(fn) ==
    unit # None /\ unit[1].fn = fn /\ unit[1].outcome = None

UnitOthersUnchanged ==
    UNCHANGED << client, pc, widgets, user_profile, action_plan, k, calls,
                 page, fault, returned >>

CallActionPlan ==
    /\ UnitPending("generate_action_plan_with_features")
    /\ unit' = Some([ unit[1] EXCEPT
                        !.outcome = Some(generate_action_plan_with_features(unit[1].args)) ])
    /\ UNCHANGED << sent, inflight >>
    /\ UnitOthersUnchanged

CallSeoAso ==
    /\ UnitPending("generate_seo_aso_suggestions")
    /\ unit' = Some([ unit[1] EXCEPT
                        !.outcome = Some(generate_seo_aso_suggestions(unit[1].args)) ])
    /\ UNCHANGED << sent, inflight >>
    /\ UnitOthersUnchanged

\* expand_strategies_with_llm up to its request: it ends at once, or the
\* request leaves the process.
CallExpand ==
    /\ UnitPending("expand_strategies_with_llm")
    /\ inflight = None
    /\ sent = << >>
    /\ LET a == unit[1].args
           o == expand_try(client, a.model, a.system_prompt, a.strategy, a.temperature)
       IN  IF o.kind = "send"
           THEN /\ inflight' = o.request
                /\ sent' = Append(sent, o.request[1])
                /\ unit' = unit
           ELSE /\ unit' = Some([ unit[1] EXCEPT !.outcome = Some(o) ])
                /\ UNCHANGED << sent, inflight >>
    /\ UnitOthersUnchanged

\* create() answers the request of a direct call.
ExpandAnswered ==
    /\ UnitPending("expand_strategies_with_llm")
    /\ inflight # None
    /\ \E response \in Responses :
         unit' = Some([ unit[1] EXCEPT !.outcome = Some(expand_result(response)),
                                       !.response = Some(response) ])
    /\ inflight' = None
    /\ UNCHANGED sent
    /\ UnitOthersUnchanged

UnitNext == CallActionPlan \/ CallSeoAso \/ CallExpand \/ ExpandAnswered

SpecUnit == UnitInit /\ [][UnitNext]_vars

(***************************************************************************)
(* Properties.                                                             *)
(***************************************************************************)
UnitDone(fn) == unit # None /\ unit[1].fn = fn /\ unit[1].outcome # None

ErrorPrefix == "Error generating strategy expansion:"

\* C1: expand_strategies_with_llm never raises past its boundary.  For every
\* model name, system prompt and strategy text it ends by returning a text:
\* one that begins with "Error generating strategy expansion:" whenever
\* building or sending the request failed (the client handle is None, the
\* model name is no key of the allow-list, create() raised); otherwise the
\* sentinel "No expansion available for this strategy." when the response
\* has no choices, and the first choice's message text when it has some.
C1_ExpandReturnsTextOrError ==
    UnitDone("expand_strategies_with_llm") =>
      LET a == unit[1].args
          o == unit[1].outcome[1]
          answered == unit[1].response # None
          failed == \/ client = None
                    \/ a.model \notin DOMAIN SUPPORTED_MODELS
                    \/ (answered /\ unit[1].response[1].raised # None)
      IN  /\ o.kind = "return"
          /\ failed => StartsWith(o.text, ErrorPrefix)
          /\ ~failed =>
               /\ answered
               /\ IF unit[1].response[1].choices = << >>
                  THEN Flat(o.text) = "No expansion available for this strategy."
                  ELSE o.text = unit[1].response[1].choices[1]

\* A call with a model name outside the allow-list and a client at hand has
\* ended with the error text naming the KeyError.
C1_Witness ==
    /\ UnitDone("expand_strategies_with_llm")
    /\ client # None
    /\ unit[1].args.model = "GPT-4"
    /\ Flat(unit[1].outcome[1].text) = "Error generating strategy expansion: 'GPT-4'"

\* C2: the generate action (the handler of the sidebar button, which calls
\* query_groq(model, temperature, system_prompt, user_query)) never ends in
\* an uncaught fault: for every profile, model choice and temperature the
\* run in which the button reports true ends without an exception.
C2_GenerateNeverFaults ==
    ( /\ pc = "idle"
      /\ widgets # None
      /\ user_profile # None
      /\ widgets[1].generate_button ) => fault = None

\* C3 as stated: one user action (one run of the script) triggers at most
\* one outbound completion request.
C3_AtMostOneRequestPerAction == Len(sent) <= 1

\* C3, amended: a run sends at most one request per derived strategy, so at
\* most two; a run without a profile sends none; at most one request is
\* outstanding, and while it is, every earlier request of the run has been
\* answered and its result written; once the run has ended every request
\* has been answered.
C3_OneRequestPerStrategyInSequence ==
    /\ Len(sent) <= 2
    /\ IF action_plan = None THEN sent = << >>
       ELSE Len(sent) <= Len(action_plan[1].strategies)
    /\ (inflight # None) <=> (pc = "awaiting")
    /\ pc = "awaiting" =>
         /\ Len(sent) = k
         /\ inflight[1] = sent[k]
         /\ Len(returned) = k - 1
    /\ pc = "idle" => Len(returned) >= Len(sent)

\* The second request of a run is outstanding, the first one answered.
C3_Witness ==
    /\ pc = "awaiting"
    /\ Len(sent) = 2
    /\ Len(returned) = 1

RuleRank(x) ==
    IF x = ConsistencyStrategy THEN 1 ELSE IF x = BalanceStrategy THEN 2 ELSE 3

\* C4: the strategies of generate_action_plan_with_features are the
\* subsequence of [consistency, balance, focus] whose rule fires:
\* consistency iff hours < 5, balance iff hours > 20, focus iff the
\* competitiveness is "Very Competitive"; in that order, none twice.  So
\* hours 3 gives consistency without balance, hours 25 balance without
\* consistency, hours 5, 10 and 20 neither, and the two never go together.
C4_StrategiesFollowTheRules ==
    UnitDone("generate_action_plan_with_features") =>
      LET hours == unit[1].args["Hours Played per Week"]
          level == unit[1].args["Competitiveness"]
          got == unit[1].outcome[1].strategies
          has(x) == x \in Range(got)
      IN  /\ has(ConsistencyStrategy) <=> hours < 5
          /\ has(BalanceStrategy) <=> hours > 20
          /\ has(FocusStrategy) <=> level = "Very Competitive"
          /\ Range(got) \subseteq { ConsistencyStrategy, BalanceStrategy, FocusStrategy }
          /\ \A a, b \in 1..Len(got) : a < b => RuleRank(got[a]) < RuleRank(got[b])
          /\ ~(has(ConsistencyStrategy) /\ has(BalanceStrategy))
          /\ hours = 3 => has(ConsistencyStrategy) /\ ~has(BalanceStrategy)
          /\ hours = 25 => has(BalanceStrategy) /\ ~has(ConsistencyStrategy)
          /\ hours \in { 5, 10, 20 } => ~has(ConsistencyStrategy) /\ ~has(BalanceStrategy)

\* Hours 3 and "Very Competitive": consistency, then focus.
C4_Witness ==
    /\ UnitDone("generate_action_plan_with_features")
    /\ unit[1].args["Hours Played per Week"] = 3
    /\ unit[1].args["Competitiveness"] = "Very Competitive"
    /\ unit[1].outcome[1].strategies = << ConsistencyStrategy, FocusStrategy >>

\* C5: the game recommendations are an exact-match lookup of the preferred
\* genre in a table of 5 genres: "RPG" gives exactly Genshin Impact, Final
\* Fantasy Brave Exvius, Another Eden; each of the 5 table genres gives its
\* own 3 titles; every other genre, the form's genres that are no table key
\* included, gives the empty list; whatever the other fields are.
C5_RecommendationsByExactGenre ==
    UnitDone("generate_action_plan_with_features") =>
      LET genre == unit[1].args["Preferred Genre"]
          got == unit[1].outcome[1].game_recommendations
          keys == { "Puzzle", "Action", "RPG", "Strategy", "Casual" }
      IN  /\ DOMAIN game_recommendations = keys
          /\ genre = "RPG" =>
               got = << "Genshin Impact", "Final Fantasy Brave Exvius", "Another Eden" >>
          /\ genre \in keys => Len(got) = 3 /\ got = game_recommendations[genre]
          /\ genre \notin keys => got = << >>
          /\ \A a, b \in keys : a # b => game_recommendations[a] # game_recommendations[b]

\* A genre the form offers and the table lacks: an empty list.
C5_Witness ==
    /\ UnitDone("generate_action_plan_with_features")
    /\ unit[1].args["Preferred Genre"] = "Shooter"
    /\ unit[1].outcome[1].game_recommendations = << >>

Written(call) == { e.body : e \in { x \in Range(page) : x.call = call } }

\* The run has got through display_ai_agent_results.
Displayed == user_profile # None /\ Written("download_button") # { }

\* C7: every formatter output renders an empty list field of the profile as
\* the placeholder "None": the on-screen profile block and the downloadable
\* report alike, the report showing the same fields as the block.
C7_EmptyListsRenderAsNone ==
    Displayed =>
      \A field \in { "Selected Features", "Selected Event Types" } :
        user_profile[1][field] = << >> =>
          /\ \A t \in Written("write") :
               HasPart(t, "  \n    **" \o field \o ":** ") =>
                 ValueAfter(t, "  \n    **" \o field \o ":** ", 1) = "None"
          /\ \A t \in Written("download_button") :
               ValueAfter(t, "'" \o field \o "'", 2) = "None"

\* C8: every request that leaves the process has a model identifier that is
\* a value of SUPPORTED_MODELS, exactly two messages, the system
\* instructions and then the user query, a temperature in [0,1] and a
\* maximum of exactly 1000 output tokens; and a model name that is no key
\* of the table leads to no request.
C8_RequestsAreWellFormed ==
    /\ \A j \in 1..Len(sent) :
         /\ sent[j].model \in { SUPPORTED_MODELS[n] : n \in DOMAIN SUPPORTED_MODELS }
         /\ Len(sent[j].messages) = 2
         /\ sent[j].messages[1].role = "system"
         /\ sent[j].messages[2].role = "user"
         /\ sent[j].temperature \in 0..100
         /\ sent[j].max_tokens = 1000
         /\ j <= Len(calls) /\ calls[j].model \in DOMAIN SUPPORTED_MODELS
    /\ inflight # None => inflight[1] \in Range(sent)
    /\ \A n \in { "GPT-4", "llama3-70b-8192", "" } :
         expand_try(client, n, ExpertPrompt, FocusStrategy, DefaultTemperature).kind # "send"

\* A request is outstanding.
C8_Witness ==
    /\ pc = "awaiting"
    /\ inflight # None
    /\ inflight[1].max_tokens = 1000
    /\ Len(inflight[1].messages) = 2

\* What main puts on the page only under `if user_profile:`.
ProfileOnlyCalls == { "write", "subheader", "download_button", "sidebar.header",
                      "sidebar.selectbox", "sidebar.slider", "sidebar.button", "spinner" }

\* C9: the action plan, the report, the expansion requests and the sidebar
\* section with its generate handler exist in a run only if the submit
\* button reported true in that run.  A run whose submit button is false,
\* whatever else was clicked, has no profile, sends nothing and does not
\* run the generate handler.
C9_NothingWithoutSubmit ==
    /\ ( widgets # None /\ ~widgets[1].submit_button ) =>
         /\ user_profile = None
         /\ action_plan = None
         /\ calls = << >>
         /\ sent = << >>
         /\ inflight = None
         /\ fault = None
         /\ \A e \in Range(page) : e.call \notin ProfileOnlyCalls
    /\ ( \/ action_plan # None
         \/ calls # << >>
         \/ sent # << >>
         \/ fault # None
         \/ \E e \in Range(page) : e.call \in ProfileOnlyCalls ) =>
         /\ widgets # None
         /\ widgets[1].submit_button
         /\ user_profile # None

\* A run in which the generate button reported true and the submit button
\* false has ended with the form alone on the page.
C9_Witness ==
    /\ pc = "idle"
    /\ widgets # None
    /\ widgets[1].generate_button
    /\ ~widgets[1].submit_button
    /\ page = page_top
    /\ fault = None

\* C10: the sidebar's model and temperature have no effect on the strategy
\* expansions: display_ai_agent_results calls expand_strategies_with_llm
\* once per derived strategy, in order, with the model name "Llama 3 70B",
\* the fixed system prompt and temperature 0.7, and every request carries
\* the identifier "llama3-70b-8192", that prompt, that temperature and the
\* strategy of its call.
C10_ExpansionsIgnoreSidebar ==
    /\ \A j \in 1..Len(calls) :
         /\ action_plan # None
         /\ j <= Len(action_plan[1].strategies)
         /\ calls[j].model = "Llama 3 70B"
         /\ calls[j].system_prompt = "You are an expert in game development and strategy."
         /\ calls[j].temperature = 70
         /\ calls[j].strategy = action_plan[1].strategies[j]
    /\ \A j \in 1..Len(sent) :
         /\ sent[j].model = "llama3-70b-8192"
         /\ sent[j].temperature = 70
         /\ sent[j].messages[1].content = "You are an expert in game development and strategy."
         /\ sent[j].messages[2].content[2] = action_plan[1].strategies[j]
    /\ ( pc = "idle" /\ action_plan # None ) =>
         /\ Len(calls) = Len(action_plan[1].strategies)
         /\ client # None => Len(sent) = Len(calls)

\* Both expansions of a run are done while the sidebar was set to another
\* model and another temperature.
C10_Witness ==
    /\ pc = "idle"
    /\ Len(sent) = 2
    /\ widgets[1].model = "Mixtral 8x7B"
    /\ widgets[1].temperature = 100
    /\ sent[2].model = "llama3-70b-8192"

====
